---------------------------- MODULE Spec2Model ----------------------------
(***************************************************************************)
(* Shady Island Tides: the tide engine (scripts/tides.js), the DFO API     *)
(* client with its cache (scripts/api.js) and the UI controller            *)
(* (scripts/ui.js).                                                        *)
(*                                                                         *)
(* Instants are milliseconds, as JavaScript Date values are.  Heights are  *)
(* fixed-point centimetres (1.1 m = 110).  A JavaScript value that may be  *)
(* null or undefined is a sequence of length 0 (absent) or 1 (present).    *)
(***************************************************************************)
EXTENDS Integers, Sequences, FiniteSets, TLC

VARIABLES
    tz,            \* the browser's offset of local time from UTC, in ms
    series,        \* engine input: a merged series (tideData argument)
    currentTime,   \* engine input: the instant passed as currentTime
    input,         \* formatter input: the number passed to a formatting function
    result,        \* engine output: the last engine call and what it returned
    predictions,   \* merger input: raw prediction samples {eventDate, value}
    observations,  \* merger input: raw observation samples {eventDate, value}
    clock,         \* Date.now(): the current instant
    currentDate,   \* ui.js currentDate: the selected date, an instant
    tideData,      \* ui.js tideData: the merged series of the viewed date
    todayTideData, \* ui.js todayTideData: the merged series for the header
    countdownInterval, \* ui.js countdownInterval: Null or the interval's id
    currentUnit,   \* ui.js currentUnit
    timers,        \* the ids of the interval timers that are running
    loading,       \* whether the loading indicator is shown
    errorShown,    \* whether the error modal is shown
    cache,         \* api.js cache: per series kind, key -> {timestamp, data}
    loads,         \* loadTideData calls with a request in flight, by call number
    loadCount,     \* how many times loadTideData has been called
    failed,        \* how many remote requests have failed
    fetched,       \* history: the fetch calls of the latest loadTideData call
    header         \* what the header shows: access status and countdown

engineVars == <<series, currentTime, input, result, predictions, observations>>

uiVars == <<clock, currentDate, tideData, todayTideData, countdownInterval,
            currentUnit, timers, loading, errorShown, cache, loads, loadCount,
            failed, fetched, header>>

vars == <<tz, engineVars, uiVars>>

-----------------------------------------------------------------------------
(* JavaScript values *)

Null == <<>>

Some(v) == <<v>>

\* JavaScript truthiness of a number-or-null: null, undefined and 0 are falsy.
Truthy(opt) == opt # Null /\ opt[1] # 0

Abs(x) == IF x < 0 THEN -x ELSE x

MinuteMs == 60 * 1000

HourMs == 60 * MinuteMs

DayMs == 24 * HourMs

\* 15 * 60 * 1000, the width of a bucket of the sampling grid
QuarterMs == 15 * 60 * 1000

-----------------------------------------------------------------------------
(* Local time of an instant (Date getters), for a fixed offset tz *)

LocalMs(t, off) == t + off

getMinutes(t, off) == (LocalMs(t, off) % HourMs) \div MinuteMs

getHours(t, off) == (LocalMs(t, off) % DayMs) \div HourMs

\* toLocaleTimeString('en-US', {hour: '2-digit', minute: '2-digit', hour12: true}):
\* "hh:mm AM" / "hh:mm PM", the hour on the 12-hour clock (12, 01, ..., 11).
\* Mutant: noon is labelled AM.
toLocaleTimeStringNoonAM(t, off) ==
    LET h == getHours(t, off)
    IN  [hour   |-> IF h % 12 = 0 THEN 12 ELSE h % 12,
         minute |-> getMinutes(t, off),
         pm     |-> h > 12]

toLocaleTimeString(t, off) ==
    LET h == getHours(t, off)
    IN  [hour   |-> IF h % 12 = 0 THEN 12 ELSE h % 12,
         minute |-> getMinutes(t, off),
         pm     |-> h >= 12]

\* One row of a merged series, as mergeTideData builds it.
MergedRow(t, off, pred, obs) ==
    [time |-> t, timeString |-> toLocaleTimeString(t, off),
     prediction |-> pred, observation |-> obs]

-----------------------------------------------------------------------------
(* scripts/tides.js: formatting. Heights are whole centimetres, texts are
   sequences of code units, numbers read from a text are fractions
   num / den. *)

\* METERS_TO_FEET = 3.28084, as 328084 / FeetScale
METERS_TO_FEET == 328084

FeetScale == 100000

RECURSIVE Pow10(_)
Pow10(n) == IF n = 0 THEN 1 ELSE 10 * Pow10(n - 1)

\* The decimal digits of a non-negative integer, as a template literal
\* writes it
RECURSIVE DecimalDigits(_)
DecimalDigits(n) ==
    IF n < 10 THEN <<48 + n>>
    ELSE DecimalDigits(n \div 10) \o <<48 + (n % 10)>>

\* meters.toFixed(2) of a height of cm centimetres: 'd.dd'
toFixed2(cm) ==
    DecimalDigits(cm \div 100) \o <<46, 48 + ((cm % 100) \div 10), 48 + (cm % 10)>>

\* metersToFeet, in units of 1 / (100 * FeetScale) of a foot
metersToFeet(cm) == cm * METERS_TO_FEET

\* formatHeight: "F' I\"" with F = floor(totalFeet) and I = round of the
\* rest times 12 (Math.round: halves go up), or 'd.ddm'
formatHeight(cm, unit) ==
    IF unit = "feet"
    THEN LET totalFeet == metersToFeet(cm)
             feet      == totalFeet \div (100 * FeetScale)
             rest      == totalFeet % (100 * FeetScale)
             inches    == (rest * 24 + 100 * FeetScale) \div (200 * FeetScale)
         IN  DecimalDigits(feet) \o <<39, 32>> \o DecimalDigits(inches) \o <<34>>
    ELSE toFixed2(cm) \o <<109>>

IsDigit(c) == c \in 48 .. 57

\* How many digits the text has from position i on
RECURSIVE DigitRun(_, _)
DigitRun(text, i) ==
    IF i <= Len(text) /\ IsDigit(text[i]) THEN 1 + DigitRun(text, i + 1) ELSE 0

\* The number the digits at positions from .. to spell
RECURSIVE DigitsValue(_, _, _)
DigitsValue(text, from, to) ==
    IF to < from THEN 0
    ELSE DigitsValue(text, from, to - 1) * 10 + (text[to] - 48)

NaN == [num |-> 0, den |-> 0]

\* parseFloat on a text without sign, leading blanks or exponent: the
\* longest prefix of the form digits [. digits], whatever follows it
parseFloat(text) ==
    LET whole    == DigitRun(text, 1)
        hasPoint == whole + 1 <= Len(text) /\ text[whole + 1] = 46
        frac     == IF hasPoint THEN DigitRun(text, whole + 2) ELSE 0
    IN  IF whole = 0 /\ frac = 0 THEN NaN
        ELSE [num |-> DigitsValue(text, 1, whole) * Pow10(frac)
                          + DigitsValue(text, whole + 2, whole + 1 + frac),
              den |-> Pow10(frac)]

\* parseHeight: feet / METERS_TO_FEET, or cm / 100; the result in metres
parseHeight(value, unit) ==
    IF unit = "feet"
    THEN LET feet == parseFloat(value)
         IN  [num |-> feet.num * FeetScale, den |-> feet.den * METERS_TO_FEET]
    ELSE LET cm == parseFloat(value)
         IN  [num |-> cm.num, den |-> cm.den * 100]

\* Mutant: the milliseconds are rounded to the nearest second.
formatCountdownRounded(ms) ==
    LET totalSeconds == (ms + 500) \div 1000
        hours        == totalSeconds \div 3600
        minutes      == (totalSeconds % 3600) \div 60
        seconds      == totalSeconds % 60
    IN  IF hours > 0
        THEN <<[n |-> hours, unit |-> "h"], [n |-> minutes, unit |-> "m"]>>
        ELSE IF minutes > 0
        THEN <<[n |-> minutes, unit |-> "m"], [n |-> seconds, unit |-> "s"]>>
        ELSE <<[n |-> seconds, unit |-> "s"]>>

\* formatCountdown: the text 'Hh Mm', 'Mm Ss' or 'Ss', held as its
\* components in the order they are written
formatCountdown(ms) ==
    LET totalSeconds == ms \div 1000
        hours        == totalSeconds \div 3600
        minutes      == (totalSeconds % 3600) \div 60
        seconds      == totalSeconds % 60
    IN  IF hours > 0
        THEN <<[n |-> hours, unit |-> "h"], [n |-> minutes, unit |-> "m"]>>
        ELSE IF minutes > 0
        THEN <<[n |-> minutes, unit |-> "m"], [n |-> seconds, unit |-> "s"]>>
        ELSE <<[n |-> seconds, unit |-> "s"]>>

-----------------------------------------------------------------------------
(* scripts/tides.js: the engine *)

accessThreshold == 110

\* Mutant: the threshold taken as exclusive.
InAccessWindowExclusive(tide) == tide < accessThreshold

\* findAccessWindows: tide <= accessThreshold
InAccessWindow(tide) == tide <= accessThreshold

\* One step of the forEach of findAccessWindows on the pair
\* (accessWindows, currentWindow); currentWindow is Null or Some(window).
WindowStep(st, entry) ==
    LET tide == entry.prediction
    IN  IF InAccessWindow(tide)
        THEN LET open == IF st.currentWindow = Null
                         THEN [start |-> entry.time, startTide |-> tide,
                               entries |-> <<>>, end |-> entry.time, endTide |-> tide]
                         ELSE st.currentWindow[1]
             IN  [st EXCEPT !.currentWindow =
                     Some([open EXCEPT !.entries = Append(open.entries, entry),
                                       !.end = entry.time,
                                       !.endTide = tide])]
        ELSE IF st.currentWindow # Null
        THEN [accessWindows |-> Append(st.accessWindows, st.currentWindow[1]),
              currentWindow |-> Null]
        ELSE st

RECURSIVE WindowSweep(_, _, _)
WindowSweep(rows, i, st) ==
    IF i > Len(rows) THEN st
    ELSE WindowSweep(rows, i + 1, WindowStep(st, rows[i]))

\* Mutant: a window still open at the end of the series is not emitted.
findAccessWindowsDropOpen(rows) ==
    WindowSweep(rows, 1, [accessWindows |-> <<>>, currentWindow |-> Null]).accessWindows

findAccessWindows(rows) ==
    LET st == WindowSweep(rows, 1, [accessWindows |-> <<>>, currentWindow |-> Null])
    IN  IF st.currentWindow # Null
        THEN Append(st.accessWindows, st.currentWindow[1])
        ELSE st.accessWindows

\* Mutant: the end of a window taken as exclusive.
ContainsNowEndExclusive(window, now) == now >= window.start /\ now < window.end

\* getCountdown, first loop: now >= window.start && now <= window.end
ContainsNow(window, now) == now >= window.start /\ now <= window.end

\* getCountdown, second loop: window.start > now
StartsAfter(window, now) == window.start > now

\* The first loop of getCountdown from window i on: the index of the first
\* window that contains now, or 0.
RECURSIVE CurrentWindowIndex(_, _, _)
CurrentWindowIndex(accessWindows, i, now) ==
    IF i > Len(accessWindows) THEN 0
    ELSE IF ContainsNow(accessWindows[i], now) THEN i
    ELSE CurrentWindowIndex(accessWindows, i + 1, now)

\* Mutant: the scan keeps going and ends on the last window that starts after now.
RECURSIVE NextWindowIndexLast(_, _, _)
NextWindowIndexLast(accessWindows, i, now) ==
    IF i > Len(accessWindows) THEN 0
    ELSE LET later == NextWindowIndexLast(accessWindows, i + 1, now)
         IN  IF later # 0 THEN later
             ELSE IF StartsAfter(accessWindows[i], now) THEN i
             ELSE 0

\* The second loop of getCountdown from window i on: the index of the first
\* window that starts after now, or 0.
RECURSIVE NextWindowIndex(_, _, _)
NextWindowIndex(accessWindows, i, now) ==
    IF i > Len(accessWindows) THEN 0
    ELSE IF StartsAfter(accessWindows[i], now) THEN i
    ELSE NextWindowIndex(accessWindows, i + 1, now)

\* Mutant: inside a window the time since its start is counted.
getCountdownFromStart(rows, now) ==
    LET accessWindows == findAccessWindows(rows)
        c == CurrentWindowIndex(accessWindows, 1, now)
        o == NextWindowIndex(accessWindows, 1, now)
    IN  IF c # 0
        THEN Some([type |-> "window-closing",
                   ms |-> accessWindows[c].start - now,
                   window |-> accessWindows[c]])
        ELSE IF o # 0
        THEN Some([type |-> "window-opening",
                   ms |-> accessWindows[o].start - now,
                   window |-> accessWindows[o]])
        ELSE Null

getCountdown(rows, now) ==
    LET accessWindows == findAccessWindows(rows)
        c == CurrentWindowIndex(accessWindows, 1, now)
        o == NextWindowIndex(accessWindows, 1, now)
    IN  IF c # 0
        THEN Some([type |-> "window-closing",
                   ms |-> accessWindows[c].end - now,
                   window |-> accessWindows[c]])
        ELSE IF o # 0
        THEN Some([type |-> "window-opening",
                   ms |-> accessWindows[o].start - now,
                   window |-> accessWindows[o]])
        ELSE Null

\* The loop of getCurrentAccessStatus on (closest, minDiff); minDiff is Null
\* for Infinity.
RECURSIVE ClosestSweep(_, _, _, _)
ClosestSweep(rows, i, now, st) ==
    IF i > Len(rows) THEN st
    ELSE LET diff == Abs(rows[i].time - now)
         IN  ClosestSweep(rows, i + 1, now,
                 IF st.minDiff = Null \/ diff < st.minDiff[1]
                 THEN [closest |-> Some(rows[i]), minDiff |-> Some(diff)]
                 ELSE st)

\* closest.observation || closest.prediction
EffectiveTide(closest) ==
    IF Truthy(closest.observation) THEN closest.observation[1]
    ELSE closest.prediction

\* getCurrentAccessStatus: tide <= accessThreshold
StatusAccessible(tide) == tide <= accessThreshold

\* Mutant: with no reading at all the island is reported not accessible.
getCurrentAccessStatusNoUnknown(rows, now) ==
    LET closest == ClosestSweep(rows, 1, now,
                       [closest |-> Null, minDiff |-> Null]).closest
    IN  IF closest = Null
        THEN [accessible |-> FALSE, status |-> "not-accessible", tide |-> Null,
              entry |-> Null]
        ELSE LET tide == EffectiveTide(closest[1])
             IN  IF StatusAccessible(tide)
                 THEN [accessible |-> TRUE, status |-> "accessible",
                       tide |-> Some(tide), entry |-> closest]
                 ELSE [accessible |-> FALSE, status |-> "not-accessible",
                       tide |-> Some(tide), entry |-> closest]

getCurrentAccessStatus(rows, now) ==
    LET closest == ClosestSweep(rows, 1, now,
                       [closest |-> Null, minDiff |-> Null]).closest
    IN  IF closest = Null
        THEN [accessible |-> FALSE, status |-> "unknown", tide |-> Null, entry |-> Null]
        ELSE LET tide == EffectiveTide(closest[1])
             IN  IF StatusAccessible(tide)
                 THEN [accessible |-> TRUE, status |-> "accessible",
                       tide |-> Some(tide), entry |-> closest]
                 ELSE [accessible |-> FALSE, status |-> "not-accessible",
                       tide |-> Some(tide), entry |-> closest]

\* Mutant: a sample as high as the highest so far replaces it.
ExceedsOrEquals(entry, high) == entry.prediction >= high.prediction

\* findHighLowTides: entry.prediction > high.prediction
Exceeds(entry, high) == entry.prediction > high.prediction

\* findHighLowTides: entry.prediction < low.prediction
Undercuts(entry, low) == entry.prediction < low.prediction

\* The for-of loop of findHighLowTides, from entry i on
RECURSIVE HighLowSweep(_, _, _, _)
HighLowSweep(rows, i, high, low) ==
    IF i > Len(rows) THEN [high |-> Some(high), low |-> Some(low)]
    ELSE HighLowSweep(rows, i + 1,
                      IF Exceeds(rows[i], high) THEN rows[i] ELSE high,
                      IF Undercuts(rows[i], low) THEN rows[i] ELSE low)

findHighLowTides(rows) ==
    IF Len(rows) = 0 THEN [high |-> Null, low |-> Null]
    ELSE HighLowSweep(rows, 1, rows[1], rows[1])

\* Mutant: equal predictions count as rising.
RisesOrLevel(before, after) == after.prediction >= before.prediction

\* getTideTrend: after.prediction > before.prediction
Rises(before, after) == after.prediction > before.prediction

\* The loop of getTideTrend from index i on (1-based): the first i with
\* rows[i].time <= now and rows[i + 1].time > now, or 0 when the loop ends
\* without a break
RECURSIVE BracketIndex(_, _, _)
BracketIndex(rows, now, i) ==
    IF i > Len(rows) - 1 THEN 0
    ELSE IF rows[i].time <= now /\ rows[i + 1].time > now THEN i
    ELSE BracketIndex(rows, now, i + 1)

getTideTrend(rows, now) ==
    LET i == BracketIndex(rows, now, 1)
    IN  IF i = 0 THEN "unknown"
        ELSE IF Rises(rows[i], rows[i + 1]) THEN "rising" ELSE "falling"

-----------------------------------------------------------------------------
(* scripts/tides.js: the series merger *)

\* Mutant: a sample is kept only when it lies exactly on a bucket boundary.
OnQuarterHourExact(t, off) == LocalMs(t, off) % QuarterMs = 0

\* filterQuarterHour: minutes === 0 || minutes === 15 || minutes === 30 || minutes === 45
OnQuarterHour(t, off) ==
    LET minutes == getMinutes(t, off)
    IN  minutes = 0 \/ minutes = 15 \/ minutes = 30 \/ minutes = 45

filterQuarterHour(data, off) ==
    LET Keep(entry) == OnQuarterHour(entry.eventDate, off)
    IN  SelectSeq(data, Keep)

\* Math.floor(date.getTime() / (15 * 60 * 1000)) * (15 * 60 * 1000)
BucketStart(t) == (t \div QuarterMs) * QuarterMs

\* Map.set on a Map held as a function from its keys
MapSet(map, key, value) ==
    [k \in DOMAIN map \cup {key} |-> IF k = key THEN value ELSE map[k]]

\* Map.get: the value, or undefined
MapGet(map, key) == IF key \in DOMAIN map THEN Some(map[key]) ELSE Null

\* The forEach that fills obsMap, from observation i on
RECURSIVE FillObsMap(_, _, _)
FillObsMap(filteredObservations, i, obsMap) ==
    IF i > Len(filteredObservations) THEN obsMap
    ELSE FillObsMap(filteredObservations, i + 1,
             MapSet(obsMap, BucketStart(filteredObservations[i].eventDate),
                    filteredObservations[i].value))

\* obsMap.get(timestamp) || null
LookupObservation(obsMap, timestamp) ==
    LET found == MapGet(obsMap, timestamp)
    IN  IF Truthy(found) THEN found ELSE Null

mergeTideData(preds, obs, off) ==
    LET filteredPredictions == filterQuarterHour(preds, off)
        filteredObservations == filterQuarterHour(obs, off)
        obsMap == FillObsMap(filteredObservations, 1, <<>>)
    IN  [i \in 1 .. Len(filteredPredictions) |->
            LET pred == filteredPredictions[i]
            IN  MergedRow(pred.eventDate, off, pred.value,
                          LookupObservation(obsMap, BucketStart(pred.eventDate)))]

-----------------------------------------------------------------------------
(* scripts/api.js: the DFO API client and its cache *)

CACHE_DURATION ==
    [predictions |-> 24 * 60 * 60 * 1000, observations |-> 15 * 60 * 1000]

\* getCacheKey: date.toISOString().split('T')[0], the calendar date of the
\* instant in UTC, held as the number of the UTC day.
getCacheKey(date) == date \div DayMs

\* Mutant: an entry is still valid at exactly its maximum age.
isCacheValidInclusive(cacheEntry, maxAge, now) ==
    IF cacheEntry = Null THEN FALSE
    ELSE now - cacheEntry[1].timestamp <= maxAge

\* isCacheValid, with Date.now() as now; cacheEntry is Null (undefined) or
\* Some({timestamp, data}).
isCacheValid(cacheEntry, maxAge, now) ==
    IF cacheEntry = Null THEN FALSE
    ELSE now - cacheEntry[1].timestamp < maxAge

\* The local calendar day of an instant (getFullYear, getMonth, getDate;
\* toDateString), held as the number of the local day.
LocalDay(t, off) == LocalMs(t, off) \div DayMs

\* new Date(y, m, d, 0, 0, 0, 0): local midnight of the instant's local day
fromDate(date, off) == LocalDay(date, off) * DayMs - off

\* new Date(y, m, d, 23, 59, 59, 999)
toDate(date, off) == fromDate(date, off) + DayMs - 1

\* The remote source: the station reports a height every quarter of an hour
\* from 09:00 to 09:15 UTC of every day; a request returns the samples of
\* its series in [from, to], in time order.
RemoteValue(kind, t) ==
    LET level == IF (t \div QuarterMs) % 2 = 0 THEN 100 ELSE 120
    IN  IF kind = "predictions" THEN level ELSE level + 5

RemoteSeries(kind, from, to) ==
    LET first == from \div DayMs
        n     == (to \div DayMs) - first + 1
        all   == [i \in 1 .. 2 * n |->
                     LET t == (first + (i - 1) \div 2) * DayMs + 9 * HourMs
                              + ((i - 1) % 2) * QuarterMs
                     IN  [eventDate |-> t, value |-> RemoteValue(kind, t)]]
        Within(sample) == from <= sample.eventDate /\ sample.eventDate <= to
    IN  SelectSeq(all, Within)

\* Mutant: the cache is keyed by the time of day of the request as well.
FetchKeyPerHour(date) == date \div HourMs

\* The cache key a fetch uses
FetchKey(date) == getCacheKey(date)

\* Mutant: today is short-circuited as well.
IsFutureDayInclusive(date, now, off) == fromDate(date, off) >= fromDate(now, off)

\* fetchObservations: dateToCheck > today, both set to their local midnight
IsFutureDay(date, now, off) == fromDate(date, off) > fromDate(now, off)

\* fetchPredictions / fetchObservations up to the first await: the future-day
\* short-circuit (observations only), the cache lookup, else the request.
\* A slot holds what the call resolved to, or the request still in flight.
FetchCall(kind, date, cch, now, off) ==
    LET key    == FetchKey(date)
        cached == MapGet(cch[kind], key)
        base   == [kind |-> kind, day |-> LocalDay(date, off), key |-> key,
                   from |-> fromDate(date, off), to |-> toDate(date, off),
                   at |-> now]
    IN  IF kind = "observations" /\ IsFutureDay(date, now, off)
        THEN [base EXCEPT !.key = 0] @@ [source |-> "none", status |-> "fulfilled", data |-> <<>>]
        ELSE IF isCacheValid(cached, CACHE_DURATION[kind], now)
        THEN base @@ [source |-> "cache", status |-> "fulfilled", data |-> cached[1].data]
        ELSE base @@ [source |-> "remote", status |-> "pending", data |-> <<>>]

\* cache[kind].set(cacheKey, {timestamp: Date.now(), data})
CacheStore(cch, kind, key, now, data) ==
    [cch EXCEPT ![kind] = MapSet(@, key, [timestamp |-> now, data |-> data])]

\* Mutant: only the prediction entries are cleared.
clearCachePredictionsOnly == [predictions |-> <<>>, observations |-> cache.observations]

\* clearCache
clearCache == [predictions |-> <<>>, observations |-> <<>>]

-----------------------------------------------------------------------------
(* scripts/ui.js: the controller *)

\* Most calls of loadTideData in a run
MaxLoads == 2

\* Most remote requests that fail in a run
MaxFailed == 1

\* The day the page is opened on
BaseDay == 10

\* The days the user looks at
ViewDays == BaseDay .. (BaseDay + 1)

\* The instants the page reads the clock at: when it is opened (18:00 local
\* time of BaseDay) and the next morning at 08:00
ClockTimes(off) ==
    {BaseDay * DayMs - off + 18 * HourMs + d : d \in {0, 14 * HourMs}}

MapRemove(map, key) == [k \in DOMAIN map \ {key} |-> map[k]]

\* loadTideData up to its first await: which dates are fetched, and each
\* fetch's call
NewLoad(cur, cch, now, off) ==
    LET today   == now
        isToday == LocalDay(cur, off) = LocalDay(today, off)
        pair(date) == <<FetchCall("predictions", date, cch, now, off),
                        FetchCall("observations", date, cch, now, off)>>
    IN  [isToday |-> isToday,
         selDay  |-> LocalDay(cur, off),
         settled |-> FALSE,
         slots   |-> IF isToday THEN pair(cur) ELSE pair(today) \o pair(cur)]

Pending(ld) == {i \in 1 .. Len(ld.slots) : ld.slots[i].status = "pending"}

AllFulfilled(ld) == \A i \in 1 .. Len(ld.slots) : ld.slots[i].status = "fulfilled"

\* Mutant: the await resolves once every fetch has settled, failed or not.
AwaitResolvesWhenSettled(ld) == Pending(ld) = {}

\* await fetchTideData / Promise.all: resolves when every fetch has
\* fulfilled, unless a fetch has rejected it before
AwaitResolves(ld) == ~ld.settled /\ AllFulfilled(ld)

\* Mutant: the selected date's series is assigned to both buffers.
LoadedBuffersSelectedOnly(ld, off) ==
    LET n == Len(ld.slots)
        merged == mergeTideData(ld.slots[n - 1].data, ld.slots[n].data, off)
    IN  [tideData |-> merged, todayTideData |-> merged]

\* loadTideData after its await: the two buffers it assigns
LoadedBuffers(ld, off) ==
    IF ld.isToday
    THEN LET merged == mergeTideData(ld.slots[1].data, ld.slots[2].data, off)
         IN  [tideData |-> merged, todayTideData |-> merged]
    ELSE [todayTideData |-> mergeTideData(ld.slots[1].data, ld.slots[2].data, off),
          tideData |-> mergeTideData(ld.slots[3].data, ld.slots[4].data, off)]

\* Mutant: the catch block also empties the viewed series.
CatchBlockClears(view) ==
    [view EXCEPT !.tideData = <<>>, !.errorShown = TRUE, !.loading = FALSE]

\* The catch block of loadTideData: showError, hideLoading
CatchBlock(view) == [view EXCEPT !.errorShown = TRUE, !.loading = FALSE]

\* updateHeaderStatus and updateCountdown: what the header shows
HeaderOf(today, now) ==
    [status    |-> getCurrentAccessStatus(today, now).status,
     trend     |-> getTideTrend(today, now),
     countdown |-> getCountdown(today, now)]

\* Mutant: the running timer is not cancelled.
startCountdownTimerKeepsOld(interval, running) ==
    LET id == CHOOSE n \in 1 .. (Cardinality(running) + 1) : n \notin running
    IN  [countdownInterval |-> Some(id), timers |-> running \cup {id}]

\* startCountdownTimer: clearInterval of the running timer, then setInterval
startCountdownTimer(interval, running) ==
    LET cleared == IF interval # Null THEN running \ {interval[1]} ELSE running
        id      == CHOOSE n \in 1 .. (Cardinality(cleared) + 1) : n \notin cleared
    IN  [countdownInterval |-> Some(id), timers |-> cleared \cup {id}]

View == [tideData |-> tideData, todayTideData |-> todayTideData,
         errorShown |-> errorShown, loading |-> loading]

\* The try block of loadTideData after a successful await: the buffers,
\* renderAllComponents, hideLoading
Rendered(ld) ==
    LET bufs  == LoadedBuffers(ld, tz)
        timer == startCountdownTimer(countdownInterval, timers)
    IN  /\ tideData' = bufs.tideData
        /\ todayTideData' = bufs.todayTideData
        /\ header' = HeaderOf(bufs.todayTideData, clock)
        /\ countdownInterval' = timer.countdownInterval
        /\ timers' = timer.timers
        /\ loading' = FALSE

\* loadTideData called with currentDate cur, the cache cch and the error
\* modal err; when every fetch is served without a request the call
\* completes before any other event.
loadTideData(cur, cch, err) ==
    LET ld == NewLoad(cur, cch, clock, tz)
    IN  /\ loadCount < MaxLoads
        /\ loadCount' = loadCount + 1
        /\ currentDate' = cur
        /\ cache' = cch
        /\ fetched' = {ld.slots[i] : i \in 1 .. Len(ld.slots)}
        /\ errorShown' = err
        /\ IF AllFulfilled(ld)
           THEN /\ Rendered(ld)
                /\ loads' = loads
           ELSE /\ loads' = MapSet(loads, loadCount + 1, ld)
                /\ loading' = TRUE
                /\ UNCHANGED <<tideData, todayTideData, header, countdownInterval, timers>>
        /\ UNCHANGED <<tz, engineVars, clock, currentUnit, failed>>

\* DOMContentLoaded: init
AppInit ==
    /\ loadCount = 0
    /\ loadTideData(clock, cache, errorShown)

NavigatePreviousDay ==
    /\ loadCount > 0
    /\ LocalDay(currentDate - DayMs, tz) \in ViewDays
    /\ loadTideData(currentDate - DayMs, cache, errorShown)

NavigateNextDay ==
    /\ loadCount > 0
    /\ LocalDay(currentDate + DayMs, tz) \in ViewDays
    /\ loadTideData(currentDate + DayMs, cache, errorShown)

\* handleDatePickerChange: currentDate is local noon of the picked day; the
\* handler then calls updateDateText, which ui.js does not define: when the
\* page defines it the load follows, otherwise the handler stops there.
HandleDatePickerChange(day, updateDateTextDefined) ==
    /\ loadCount > 0
    /\ LET picked == day * DayMs + 12 * HourMs - tz
       IN  IF updateDateTextDefined
           THEN loadTideData(picked, cache, errorShown)
           ELSE /\ currentDate' = picked
                /\ UNCHANGED <<tz, engineVars, clock, tideData, todayTideData, header,
                               countdownInterval, currentUnit, timers, loading,
                               errorShown, cache, loads, loadCount, failed, fetched>>

ToggleUnit ==
    /\ loadCount > 0
    /\ currentUnit' = IF currentUnit = "meters" THEN "feet" ELSE "meters"
    /\ LET timer == startCountdownTimer(countdownInterval, timers)
       IN  /\ countdownInterval' = timer.countdownInterval
           /\ timers' = timer.timers
    /\ header' = HeaderOf(todayTideData, clock)
    /\ UNCHANGED <<tz, engineVars, clock, currentDate, tideData, todayTideData,
                   loading, errorShown, cache, loads, loadCount, failed, fetched>>

HandleRefresh ==
    /\ loadCount > 0
    /\ loadTideData(currentDate, clearCache, errorShown)

RetryAfterError ==
    /\ errorShown
    /\ loadTideData(currentDate, cache, FALSE)

HideError ==
    /\ errorShown
    /\ errorShown' = FALSE
    /\ UNCHANGED <<tz, engineVars, clock, currentDate, tideData, todayTideData, header,
                   countdownInterval, currentUnit, timers, loading, cache, loads,
                   loadCount, failed, fetched>>

\* Mutant: the tick computes the countdown from the viewed date's series.
TimerTickViewedDate ==
    /\ timers # {}
    /\ header' = [header EXCEPT !.countdown = getCountdown(tideData, clock)]
    /\ UNCHANGED <<tz, engineVars, clock, currentDate, tideData, todayTideData,
                   countdownInterval, currentUnit, timers, loading, errorShown,
                   cache, loads, loadCount, failed, fetched>>

\* The interval callback: updateCountdown
TimerTick ==
    /\ timers # {}
    /\ header' = [header EXCEPT !.countdown = getCountdown(todayTideData, clock)]
    /\ UNCHANGED <<tz, engineVars, clock, currentDate, tideData, todayTideData,
                   countdownInterval, currentUnit, timers, loading, errorShown,
                   cache, loads, loadCount, failed, fetched>>

\* The response to the request of slot i of load id arrives with a success
\* status: the fetch stores it in the cache and resolves; when it was the
\* load's last open fetch, loadTideData goes on after its await.
RespondOk(id, i) ==
    /\ id \in DOMAIN loads
    /\ i \in Pending(loads[id])
    /\ LET slot == loads[id].slots[i]
           data == RemoteSeries(slot.kind, slot.from, slot.to)
           ld   == [loads[id] EXCEPT !.slots[i].status = "fulfilled",
                                     !.slots[i].data = data]
       IN  /\ cache' = CacheStore(cache, slot.kind, slot.key, clock, data)
           /\ IF AwaitResolves(ld)
              THEN /\ Rendered(ld)
                   /\ loads' = MapRemove(loads, id)
              ELSE /\ loads' = IF Pending(ld) = {} THEN MapRemove(loads, id)
                                ELSE MapSet(loads, id, ld)
                   /\ UNCHANGED <<tideData, todayTideData, header, countdownInterval,
                                  timers, loading>>
    /\ UNCHANGED <<tz, engineVars, clock, currentDate, currentUnit, errorShown,
                   loadCount, failed, fetched>>

\* Mutant: a failed request leaves an empty response in the cache.
RespondErrorCachesEmpty(id, i) ==
    /\ id \in DOMAIN loads
    /\ i \in Pending(loads[id])
    /\ failed < MaxFailed
    /\ failed' = failed + 1
    /\ cache' = CacheStore(cache, loads[id].slots[i].kind, loads[id].slots[i].key, clock, <<>>)
    /\ LET ld   == [loads[id] EXCEPT !.slots[i].status = "rejected", !.settled = TRUE]
           view == IF loads[id].settled THEN View ELSE CatchBlock(View)
       IN  /\ loads' = IF Pending(ld) = {} THEN MapRemove(loads, id)
                        ELSE MapSet(loads, id, ld)
           /\ tideData' = view.tideData
           /\ todayTideData' = view.todayTideData
           /\ errorShown' = view.errorShown
           /\ loading' = view.loading
    /\ UNCHANGED <<tz, engineVars, clock, currentDate, header, countdownInterval,
                   currentUnit, timers, loadCount, fetched>>

\* The request of slot i of load id fails (a non-success status or a
\* transport error): the fetch rejects, and so does a load that is still
\* awaiting, which runs its catch block.
RespondError(id, i) ==
    /\ id \in DOMAIN loads
    /\ i \in Pending(loads[id])
    /\ failed < MaxFailed
    /\ failed' = failed + 1
    /\ LET ld   == [loads[id] EXCEPT !.slots[i].status = "rejected", !.settled = TRUE]
           view == IF loads[id].settled THEN View ELSE CatchBlock(View)
       IN  /\ loads' = IF Pending(ld) = {} THEN MapRemove(loads, id)
                        ELSE MapSet(loads, id, ld)
           /\ tideData' = view.tideData
           /\ todayTideData' = view.todayTideData
           /\ errorShown' = view.errorShown
           /\ loading' = view.loading
    /\ UNCHANGED <<tz, engineVars, clock, currentDate, header, countdownInterval,
                   currentUnit, timers, cache, loadCount, fetched>>

\* Time passes
AdvanceClock(t) ==
    /\ t > clock
    /\ clock' = t
    /\ UNCHANGED <<tz, engineVars, currentDate, tideData, todayTideData, header,
                   countdownInterval, currentUnit, timers, loading, errorShown,
                   cache, loads, loadCount, failed, fetched>>

-----------------------------------------------------------------------------
(* The engine applied to bounded inputs *)

\* The controller and the API client before the page has loaded anything
UiIdle ==
    /\ clock = 0
    /\ currentDate = 0
    /\ tideData = <<>>
    /\ todayTideData = <<>>
    /\ countdownInterval = Null
    /\ currentUnit = "meters"
    /\ timers = {}
    /\ loading = FALSE
    /\ errorShown = FALSE
    /\ cache = [predictions |-> <<>>, observations |-> <<>>]
    /\ loads = <<>>
    /\ loadCount = 0
    /\ failed = 0
    /\ fetched = {}
    /\ header = [status |-> "unknown", trend |-> "unknown", countdown |-> Null]

\* Longest series the engine is applied to
MaxLen == 3

Slots == 1 .. 3

\* Sample instants: the quarter hours after 08:00 UTC
DayStart == 8 * HourMs

SlotTime(k) == DayStart + k * QuarterMs

SampleTimes == {SlotTime(k) : k \in Slots}

\* Instants of "now": every half bucket from before the first sample to after the last
NowTimes == {DayStart + k * (QuarterMs \div 2) : k \in 1 .. (2 * Cardinality(Slots) + 1)}

\* Predicted heights: below, at and above the threshold
Heights == {100, 110, 120}

\* Observed heights: absent, zero, below and above the threshold
Observations == {Null, Some(0), Some(100), Some(120)}

SeqsUpTo(S, n) == UNION {[1 .. k -> S] : k \in 0 .. n}

PredictionOnlyRows == {MergedRow(t, 0, p, Null) : t \in SampleTimes, p \in Heights}

NoCall == [op |-> "none"]

InitEngine ==
    /\ tz = 0
    /\ series \in SeqsUpTo(PredictionOnlyRows, MaxLen)
    /\ currentTime \in NowTimes
    /\ input = 0
    /\ result = NoCall
    /\ predictions = <<>>
    /\ observations = <<>>
    /\ UiIdle

CallFindAccessWindows ==
    /\ result = NoCall
    /\ result' = [op |-> "findAccessWindows", value |-> findAccessWindows(series)]
    /\ UNCHANGED <<tz, series, currentTime, input, predictions, observations, uiVars>>

CallGetCountdown ==
    /\ result = NoCall
    /\ result' = [op |-> "getCountdown", value |-> getCountdown(series, currentTime)]
    /\ UNCHANGED <<tz, series, currentTime, input, predictions, observations, uiVars>>

CallGetCurrentAccessStatus ==
    /\ result = NoCall
    /\ result' = [op |-> "getCurrentAccessStatus",
                  value |-> getCurrentAccessStatus(series, currentTime)]
    /\ UNCHANGED <<tz, series, currentTime, input, predictions, observations, uiVars>>

CallFindHighLowTides ==
    /\ result = NoCall
    /\ result' = [op |-> "findHighLowTides", value |-> findHighLowTides(series)]
    /\ UNCHANGED <<tz, series, currentTime, input, predictions, observations, uiVars>>

CallGetTideTrend ==
    /\ result = NoCall
    /\ result' = [op |-> "getTideTrend", value |-> getTideTrend(series, currentTime)]
    /\ UNCHANGED <<tz, series, currentTime, input, predictions, observations, uiVars>>

NextEngine ==
    \/ CallFindAccessWindows
    \/ CallGetCountdown
    \/ CallGetCurrentAccessStatus
    \/ CallFindHighLowTides
    \/ CallGetTideTrend

SpecEngine == InitEngine /\ [][NextEngine]_vars

-----------------------------------------------------------------------------
(* The status classifier applied to series that carry observations *)

\* Longest series the status classifier is applied to
MaxStatusLen == 2

ObservedRows ==
    {MergedRow(t, 0, p, o) : t \in SampleTimes, p \in {100, 120}, o \in Observations}

InitStatus ==
    /\ tz = 0
    /\ series \in SeqsUpTo(ObservedRows, MaxStatusLen)
    /\ currentTime \in NowTimes
    /\ input = 0
    /\ result = NoCall
    /\ predictions = <<>>
    /\ observations = <<>>
    /\ UiIdle

NextStatus == CallGetCurrentAccessStatus

SpecStatus == InitStatus /\ [][NextStatus]_vars

-----------------------------------------------------------------------------
(* The merger applied to bounded raw series *)

\* Longest raw series handed to the merger
MaxRaw == 2

\* Offsets of local time from UTC: UTC itself and Pacific Standard Time
TimeZones == {0, -8 * HourMs}

RawSample(t, v) == [eventDate |-> t, value |-> v]

\* 08:15:30 (on the grid by its minute, inside the 08:15 bucket), 08:20 (off
\* the grid) and 08:30
RawPredictions ==
    {RawSample(t, v) : t \in {SlotTime(1) + 30 * 1000, SlotTime(1) + 5 * MinuteMs, SlotTime(2)},
                       v \in {100, 120}}

\* 08:15, 08:20 (off the grid, inside the 08:15 bucket) and 08:45 (a bucket
\* with no prediction)
RawObservations ==
    {RawSample(t, v) : t \in {SlotTime(1), SlotTime(1) + 5 * MinuteMs, SlotTime(3)},
                       v \in {0, 100}}

InitMerge ==
    /\ tz \in TimeZones
    /\ predictions \in SeqsUpTo(RawPredictions, MaxRaw)
    /\ observations \in SeqsUpTo(RawObservations, MaxRaw)
    /\ series = <<>>
    /\ currentTime = 0
    /\ input = 0
    /\ result = NoCall
    /\ UiIdle

CallMergeTideData ==
    /\ result = NoCall
    /\ result' = [op |-> "mergeTideData",
                  value |-> mergeTideData(predictions, observations, tz)]
    /\ UNCHANGED <<tz, series, currentTime, input, predictions, observations, uiVars>>

NextMerge == CallMergeTideData

SpecMerge == InitMerge /\ [][NextMerge]_vars

\* Predictions on the quarter-hour grid whose labels cross 12:xx -> 01:00
\* (UTC-8) and AM -> PM (UTC): 07:45, 08:00, 08:30, 09:00 and 12:00 UTC
DayPredictions ==
    {RawSample(BaseDay * DayMs + q * QuarterMs, 100) : q \in {31, 32, 34, 36, 48}}

\* mergeTideData applied to predictions alone, in any order
InitLabels ==
    /\ tz \in TimeZones
    /\ predictions \in SeqsUpTo(DayPredictions, MaxRaw)
    /\ observations = <<>>
    /\ series = <<>>
    /\ currentTime = 0
    /\ input = 0
    /\ result = NoCall
    /\ UiIdle

SpecLabels == InitLabels /\ [][NextMerge]_vars

-----------------------------------------------------------------------------
(* The formatting functions called directly *)

\* Countdowns around the places where the text changes its form: below a
\* minute, around one and two minutes, around one and two hours, around a
\* day; each on a whole second and 1 ms before the next one
CountdownSeconds ==
    (0 .. 2) \cup (58 .. 62) \cup (118 .. 121) \cup (3598 .. 3602)
        \cup (3658 .. 3662) \cup (7198 .. 7201) \cup {86399, 86400, 90061}

CountdownInputs == {sec * 1000 + rest : sec \in CountdownSeconds, rest \in {0, 999}}

InitCountdownFormat ==
    /\ tz = 0
    /\ series = <<>>
    /\ currentTime = 0
    /\ input \in CountdownInputs
    /\ result = NoCall
    /\ predictions = <<>>
    /\ observations = <<>>
    /\ UiIdle

CallFormatCountdown ==
    /\ result = NoCall
    /\ result' = [op |-> "formatCountdown", value |-> formatCountdown(input)]
    /\ UNCHANGED <<tz, series, currentTime, input, predictions, observations, uiVars>>

NextCountdownFormat == CallFormatCountdown

SpecCountdownFormat == InitCountdownFormat /\ [][NextCountdownFormat]_vars

\* The greatest height, in centimetres
MaxHeightCm == 150

InitHeightFormat ==
    /\ tz = 0
    /\ series = <<>>
    /\ currentTime = 0
    /\ input \in 0 .. MaxHeightCm
    /\ result = NoCall
    /\ predictions = <<>>
    /\ observations = <<>>
    /\ UiIdle

\* parseHeight(formatHeight(x, unit), unit)
CallParseFormatted(unit) ==
    /\ result = NoCall
    /\ result' = [op |-> "parseHeight", unit |-> unit,
                  text |-> formatHeight(input, unit),
                  value |-> parseHeight(formatHeight(input, unit), unit)]
    /\ UNCHANGED <<tz, series, currentTime, input, predictions, observations, uiVars>>

NextHeightFormat == \E unit \in {"meters", "feet"} : CallParseFormatted(unit)

SpecHeightFormat == InitHeightFormat /\ [][NextHeightFormat]_vars

-----------------------------------------------------------------------------
(* The page: the controller over the API client and the remote source *)

\* The page is opened at 18:00 local time of BaseDay.
Init ==
    /\ tz \in TimeZones
    /\ clock = BaseDay * DayMs - tz + 18 * HourMs
    /\ currentDate = clock
    /\ tideData = <<>>
    /\ todayTideData = <<>>
    /\ countdownInterval = Null
    /\ currentUnit = "meters"
    /\ timers = {}
    /\ loading = FALSE
    /\ errorShown = FALSE
    /\ cache = [predictions |-> <<>>, observations |-> <<>>]
    /\ loads = <<>>
    /\ loadCount = 0
    /\ failed = 0
    /\ fetched = {}
    /\ header = [status |-> "unknown", trend |-> "unknown", countdown |-> Null]
    /\ series = <<>>
    /\ currentTime = 0
    /\ input = 0
    /\ result = NoCall
    /\ predictions = <<>>
    /\ observations = <<>>

Next ==
    \/ AppInit
    \/ NavigatePreviousDay
    \/ NavigateNextDay
    \/ \E day \in ViewDays, defined \in BOOLEAN : HandleDatePickerChange(day, defined)
    \/ ToggleUnit
    \/ HandleRefresh
    \/ RetryAfterError
    \/ HideError
    \/ TimerTick
    \/ \E id \in DOMAIN loads : \E i \in 1 .. Len(loads[id].slots) : RespondOk(id, i)
    \/ \E id \in DOMAIN loads : \E i \in 1 .. Len(loads[id].slots) : RespondError(id, i)
    \/ \E t \in ClockTimes(tz) : AdvanceClock(t)

Spec == Init /\ [][Next]_vars

\* The page without its timers and with the clock standing still: loads,
\* navigation, refresh, retry and the remote source's answers.
NextLoads ==
    \/ AppInit
    \/ NavigatePreviousDay
    \/ NavigateNextDay
    \/ \E day \in ViewDays, defined \in BOOLEAN : HandleDatePickerChange(day, defined)
    \/ HandleRefresh
    \/ RetryAfterError
    \/ \E id \in DOMAIN loads : \E i \in 1 .. Len(loads[id].slots) : RespondOk(id, i)
    \/ \E id \in DOMAIN loads : \E i \in 1 .. Len(loads[id].slots) : RespondError(id, i)

SpecLoads == Init /\ [][NextLoads]_vars

\* The page with its timers, the clock standing still and navigation by the
\* next button: loads, refreshes, retries, unit toggles, timer ticks and the
\* remote source's answers.
NextTimers ==
    \/ AppInit
    \/ NavigateNextDay
    \/ HandleRefresh
    \/ RetryAfterError
    \/ ToggleUnit
    \/ TimerTick
    \/ \E id \in DOMAIN loads : \E i \in 1 .. Len(loads[id].slots) : RespondOk(id, i)
    \/ \E id \in DOMAIN loads : \E i \in 1 .. Len(loads[id].slots) : RespondError(id, i)

SpecTimers == Init /\ [][NextTimers]_vars

\* The page opened in the morning, half an hour before the day's first
\* sample (08:30 UTC of BaseDay: 08:30 local time in UTC, 00:30 in UTC-8)
InitMorning ==
    /\ tz \in TimeZones
    /\ clock = BaseDay * DayMs + 8 * HourMs + 30 * MinuteMs
    /\ currentDate = clock
    /\ tideData = <<>>
    /\ todayTideData = <<>>
    /\ countdownInterval = Null
    /\ currentUnit = "meters"
    /\ timers = {}
    /\ loading = FALSE
    /\ errorShown = FALSE
    /\ cache = [predictions |-> <<>>, observations |-> <<>>]
    /\ loads = <<>>
    /\ loadCount = 0
    /\ failed = 0
    /\ fetched = {}
    /\ header = [status |-> "unknown", trend |-> "unknown", countdown |-> Null]
    /\ series = <<>>
    /\ currentTime = 0
    /\ input = 0
    /\ result = NoCall
    /\ predictions = <<>>
    /\ observations = <<>>

\* The instants the clock is read at after that: at the first sample (09:00
\* UTC) and between the two samples of the day (09:10 UTC)
TickTimes == {BaseDay * DayMs + 9 * HourMs + d : d \in {0, 10 * MinuteMs}}

\* The page with its timers while time passes: loads, next-day navigation,
\* unit toggles, timer ticks and the remote source's answers.
NextTicks ==
    \/ AppInit
    \/ NavigateNextDay
    \/ ToggleUnit
    \/ TimerTick
    \/ \E id \in DOMAIN loads : \E i \in 1 .. Len(loads[id].slots) : RespondOk(id, i)
    \/ \E id \in DOMAIN loads : \E i \in 1 .. Len(loads[id].slots) : RespondError(id, i)
    \/ \E t \in TickTimes : AdvanceClock(t)

SpecTicks == InitMorning /\ [][NextTicks]_vars

\* What the remote source can report as one day's predictions: samples on
\* the quarter hours after 08:00 UTC, strictly increasing in time
DayReports ==
    {raw \in SeqsUpTo({RawSample(t, p) : t \in SampleTimes, p \in Heights}, MaxLen) :
        \A i \in 1 .. Len(raw) - 1 : raw[i].eventDate < raw[i + 1].eventDate}

\* The page right after the load of init has rendered: the remote source
\* reported raw as today's predictions and no observations
InitHeader ==
    /\ tz = 0
    /\ clock \in NowTimes
    /\ currentDate = clock
    /\ \E raw \in DayReports :
          /\ tideData = mergeTideData(raw, <<>>, tz)
          /\ cache = CacheStore(CacheStore(clearCache, "predictions",
                                           FetchKey(clock), clock, raw),
                                "observations", FetchKey(clock), clock, <<>>)
    /\ todayTideData = tideData
    /\ header = HeaderOf(todayTideData, clock)
    /\ countdownInterval = Some(1)
    /\ timers = {1}
    /\ currentUnit = "meters"
    /\ loading = FALSE
    /\ errorShown = FALSE
    /\ loads = <<>>
    /\ loadCount = 1
    /\ failed = 0
    /\ fetched = LET ld == NewLoad(clock, clearCache, clock, tz)
                 IN  {ld.slots[i] : i \in 1 .. Len(ld.slots)}
    /\ series = <<>>
    /\ currentTime = 0
    /\ input = 0
    /\ result = NoCall
    /\ predictions = <<>>
    /\ observations = <<>>

\* The loaded page while time passes: timer ticks and unit toggles
NextHeader ==
    \/ TimerTick
    \/ ToggleUnit
    \/ \E t \in NowTimes : AdvanceClock(t)

SpecHeader == InitHeader /\ [][NextHeader]_vars

-----------------------------------------------------------------------------
(* The API client called directly *)

\* Most calls of fetchPredictions and fetchObservations in a run
MaxFetches == 2

\* The dates the client is called with: the current instant and the picker's
\* local noon of a day
ApiDates(now, off) ==
    {now} \cup {day * DayMs + 12 * HourMs - off : day \in ViewDays}

\* The instants the API client reads the clock at: 18:00 local time of
\* BaseDay, a quarter of an hour later (an observation's cache life) and a
\* day later (a prediction's)
ApiClockTimes(off) ==
    {BaseDay * DayMs - off + 18 * HourMs + d : d \in {0, 15 * MinuteMs, DayMs}}

\* A call of fetchPredictions or fetchObservations up to its first await
ApiFetch(kind, date) ==
    /\ loadCount < MaxFetches
    /\ loadCount' = loadCount + 1
    /\ LET slot == FetchCall(kind, date, cache, clock, tz)
       IN  /\ fetched' = {slot}
           /\ loads' = IF slot.status = "pending"
                        THEN MapSet(loads, loadCount + 1,
                                    [isToday |-> FALSE, selDay |-> slot.day,
                                     settled |-> TRUE, slots |-> <<slot>>])
                        ELSE loads
    /\ UNCHANGED <<tz, engineVars, clock, currentDate, tideData, todayTideData, header,
                   countdownInterval, currentUnit, timers, loading, errorShown,
                   cache, failed>>

\* The response to the request of call id arrives with a success status
ApiRespondOk(id) ==
    /\ id \in DOMAIN loads
    /\ LET slot == loads[id].slots[1]
       IN  cache' = CacheStore(cache, slot.kind, slot.key, clock,
                               RemoteSeries(slot.kind, slot.from, slot.to))
    /\ loads' = MapRemove(loads, id)
    /\ UNCHANGED <<tz, engineVars, clock, currentDate, tideData, todayTideData, header,
                   countdownInterval, currentUnit, timers, loading, errorShown,
                   loadCount, failed, fetched>>

\* The request of call id fails: the call throws and stores nothing
ApiRespondError(id) ==
    /\ id \in DOMAIN loads
    /\ failed < MaxFailed
    /\ failed' = failed + 1
    /\ loads' = MapRemove(loads, id)
    /\ UNCHANGED <<tz, engineVars, clock, currentDate, tideData, todayTideData, header,
                   countdownInterval, currentUnit, timers, loading, errorShown,
                   cache, loadCount, fetched>>

ApiClearCache ==
    /\ cache # clearCache
    /\ cache' = clearCache
    /\ UNCHANGED <<tz, engineVars, clock, currentDate, tideData, todayTideData, header,
                   countdownInterval, currentUnit, timers, loading, errorShown,
                   loads, loadCount, failed, fetched>>

NextApi ==
    \/ \E kind \in {"predictions", "observations"} :
          \E date \in ApiDates(clock, tz) : ApiFetch(kind, date)
    \/ \E id \in DOMAIN loads : ApiRespondOk(id)
    \/ \E id \in DOMAIN loads : ApiRespondError(id)
    \/ ApiClearCache
    \/ \E t \in ApiClockTimes(tz) : AdvanceClock(t)

SpecApi == Init /\ [][NextApi]_vars

-----------------------------------------------------------------------------
(* Properties of the engine *)

NonDecreasing(s) == \A i \in 1 .. Len(s) - 1 : s[i].time <= s[i + 1].time

StrictlyIncreasing(s) == \A i \in 1 .. Len(s) - 1 : s[i].time < s[i + 1].time

\* The maximal runs of consecutive samples with prediction <= 1.1, as pairs
\* <<first index, last index>>.
MaximalRuns(s) ==
    {r \in (1 .. Len(s)) \X (1 .. Len(s)) :
        /\ r[1] <= r[2]
        /\ \A i \in r[1] .. r[2] : s[i].prediction <= 110
        /\ r[1] > 1 => s[r[1] - 1].prediction > 110
        /\ r[2] < Len(s) => s[r[2] + 1].prediction > 110}

\* The k-th maximal run in series order.
KthRun(s, k) ==
    CHOOSE r \in MaximalRuns(s) :
        Cardinality({q \in MaximalRuns(s) : q[1] < r[1]}) = k - 1

\* C1: on a series that is non-decreasing by time, the windows of
\* findAccessWindows are runs of the series that share no sample and follow
\* one another in series order and in time (strictly apart in time when the
\* times are strictly increasing); every sample in a window has prediction
\* <= 1.1; the sample just before a window's first entry and the sample just
\* after its last entry, when there is one, has prediction > 1.1.
C1_WindowsOrderedDisjointBounded ==
    (result.op = "findAccessWindows" /\ NonDecreasing(series)) =>
        LET ws == result.value
            n  == Len(series)
        IN  /\ \A k \in 1 .. Len(ws) : \A i \in 1 .. Len(ws[k].entries) :
                   ws[k].entries[i].prediction <= 110
            /\ \E b \in [1 .. Len(ws) -> (1 .. n) \X (1 .. n)] :
                   /\ \A k \in 1 .. Len(ws) :
                          /\ b[k][1] <= b[k][2]
                          /\ ws[k].entries = SubSeq(series, b[k][1], b[k][2])
                          /\ b[k][1] > 1 => series[b[k][1] - 1].prediction > 110
                          /\ b[k][2] < n => series[b[k][2] + 1].prediction > 110
                   /\ \A k \in 1 .. Len(ws) - 1 : b[k][2] < b[k + 1][1]
            /\ \A j, k \in 1 .. Len(ws) :
                   j < k => /\ ws[j].end <= ws[k].start
                            /\ StrictlyIncreasing(series) => ws[j].end < ws[k].start

\* C1 witness: two windows found on a time-sorted series, with a sample above
\* the threshold between them.
C1_Witness ==
    /\ result.op = "findAccessWindows"
    /\ NonDecreasing(series)
    /\ Len(series) = 3
    /\ Len(result.value) = 2

\* C2: findAccessWindows returns exactly the maximal runs of consecutive
\* samples with prediction <= 1.1, in series order: the k-th window's entries
\* are the k-th run's samples, its start is the time of the run's first
\* sample and its end the time of the run's last sample (start <= end on a
\* time-sorted series); so a run that reaches the end of the series is
\* emitted and a run of one sample gives a window with start = end.
C2_WindowsAreMaximalRuns ==
    result.op = "findAccessWindows" =>
        LET ws == result.value
        IN  /\ Len(ws) = Cardinality(MaximalRuns(series))
            /\ \A k \in 1 .. Len(ws) :
                   LET r == KthRun(series, k)
                   IN  /\ ws[k].entries = SubSeq(series, r[1], r[2])
                       /\ ws[k].start = series[r[1]].time
                       /\ ws[k].end = series[r[2]].time
                       /\ NonDecreasing(series) => ws[k].start <= ws[k].end
                       /\ r[1] = r[2] => ws[k].start = ws[k].end

\* C2 witness: a series that ends inside a run of a single sample, after an
\* earlier run of two samples was closed.
C2_Witness ==
    /\ result.op = "findAccessWindows"
    /\ Len(series) = MaxLen
    /\ series[Len(series)].prediction <= 110
    /\ series[Len(series) - 1].prediction > 110
    /\ Len(result.value) >= 1
    /\ result.value[Len(result.value)].start = result.value[Len(result.value)].end

\* The detected windows that contain the instant given to getCountdown.
WindowsContainingNow ==
    LET ws == findAccessWindows(series)
    IN  {k \in 1 .. Len(ws) : ws[k].start <= currentTime /\ currentTime <= ws[k].end}

\* The detected windows that start strictly after that instant.
WindowsAfterNow ==
    LET ws == findAccessWindows(series)
    IN  {k \in 1 .. Len(ws) : ws[k].start > currentTime}

\* C3: if now lies in [start, end], both ends included, of some detected
\* window, getCountdown returns 'window-closing' for the first such window in
\* detection order, with ms = window.end - now and that window as its window.
C3_WindowClosing ==
    (result.op = "getCountdown" /\ WindowsContainingNow # {}) =>
        LET ws == findAccessWindows(series)
            k  == CHOOSE i \in WindowsContainingNow :
                      \A j \in WindowsContainingNow : i <= j
        IN  /\ result.value # Null
            /\ result.value[1].type = "window-closing"
            /\ result.value[1].window = ws[k]
            /\ result.value[1].ms = ws[k].end - currentTime

\* C3 witness: now is the inclusive end of a window of more than one sample,
\* and getCountdown reported it as closing in 0 ms.
C3_Witness ==
    /\ result.op = "getCountdown"
    /\ result.value # Null
    /\ result.value[1].type = "window-closing"
    /\ result.value[1].ms = 0
    /\ result.value[1].window.start < currentTime

\* C4 as stated: when now lies in no detected window, getCountdown returns
\* 'window-opening' for the earliest window whose start is strictly after
\* now, with ms = window.start - now, for every series; and it returns null
\* exactly when no window contains now and none starts after now.
C4_EarliestForEverySeries ==
    result.op = "getCountdown" =>
        LET ws == findAccessWindows(series)
        IN  /\ (WindowsContainingNow = {} /\ WindowsAfterNow # {}) =>
                   /\ result.value # Null
                   /\ result.value[1].type = "window-opening"
                   /\ \A k \in WindowsAfterNow :
                          result.value[1].window.start <= ws[k].start
                   /\ result.value[1].ms = result.value[1].window.start - currentTime
            /\ result.value = Null <=>
                   (WindowsContainingNow = {} /\ WindowsAfterNow = {})

\* C4 amended: when now lies in no detected window, getCountdown returns
\* 'window-opening' for the first window in detection order whose start is
\* strictly after now, with ms = window.start - now; on a series that is
\* non-decreasing by time that window is the earliest one starting after
\* now; and for every series it returns null exactly when no window contains
\* now and none starts after now.
C4_WindowOpening ==
    result.op = "getCountdown" =>
        LET ws == findAccessWindows(series)
        IN  /\ (WindowsContainingNow = {} /\ WindowsAfterNow # {}) =>
                   LET k == CHOOSE i \in WindowsAfterNow :
                                \A j \in WindowsAfterNow : i <= j
                   IN  /\ result.value # Null
                       /\ result.value[1].type = "window-opening"
                       /\ result.value[1].window = ws[k]
                       /\ result.value[1].ms = ws[k].start - currentTime
                       /\ NonDecreasing(series) =>
                              \A j \in WindowsAfterNow : ws[k].start <= ws[j].start
            /\ result.value = Null <=>
                   (WindowsContainingNow = {} /\ WindowsAfterNow = {})

\* C4 witness: on a time-sorted series with two windows after now,
\* getCountdown reported the opening of the earlier one.
C4_Witness ==
    /\ result.op = "getCountdown"
    /\ NonDecreasing(series)
    /\ WindowsContainingNow = {}
    /\ Cardinality(WindowsAfterNow) = 2
    /\ result.value # Null
    /\ result.value[1].type = "window-opening"
    /\ result.value[1].ms > 0

\* The index of the sample whose time is nearest to the instant given to
\* getCurrentAccessStatus, the first one on ties.
NearestIndex ==
    CHOOSE i \in 1 .. Len(series) :
        /\ \A j \in 1 .. Len(series) :
               Abs(series[i].time - currentTime) <= Abs(series[j].time - currentTime)
        /\ \A j \in 1 .. i - 1 :
               Abs(series[i].time - currentTime) < Abs(series[j].time - currentTime)

\* C5: on a non-empty series getCurrentAccessStatus classifies the sample
\* nearest to now (the first on ties); the effective tide is its observation
\* whenever one is present, whatever its value, and its prediction otherwise;
\* accessible holds exactly when the effective tide is <= 1.1.
C5_StatusPrefersObservation ==
    (result.op = "getCurrentAccessStatus" /\ series # <<>>) =>
        LET s   == series[NearestIndex]
            eff == IF s.observation # Null THEN s.observation[1] ELSE s.prediction
        IN  /\ result.value.entry = Some(s)
            /\ result.value.tide = Some(eff)
            /\ result.value.accessible <=> eff <= 110

\* Whether a raw sample's minute of the hour is 0, 15, 30 or 45.
MinuteOnGrid(sample) == getMinutes(sample.eventDate, tz) \in {0, 15, 30, 45}

\* The on-grid observations that fall in the 15-minute bucket of instant t,
\* as indices into observations.
ObservationsInBucket(t) ==
    {j \in 1 .. Len(observations) :
        /\ MinuteOnGrid(observations[j])
        /\ observations[j].eventDate \div (15 * 60 * 1000) = t \div (15 * 60 * 1000)}

\* C6: mergeTideData returns exactly one row per prediction whose minute of
\* the hour is 0, 15, 30 or 45, in the input order of those predictions,
\* with that prediction's time and value; an observation a row carries is
\* the value of an on-grid observation of the row's bucket, so off-grid
\* samples contribute nothing and an observation whose bucket matches no
\* retained prediction produces no row.
C6_OneRowPerGridPrediction ==
    result.op = "mergeTideData" =>
        LET rows == result.value
            kept == SelectSeq(predictions, MinuteOnGrid)
        IN  /\ Len(rows) = Len(kept)
            /\ \A i \in 1 .. Len(rows) :
                   /\ rows[i].time = kept[i].eventDate
                   /\ rows[i].prediction = kept[i].value
                   /\ rows[i].observation # Null =>
                          \E j \in ObservationsInBucket(rows[i].time) :
                              rows[i].observation = Some(observations[j].value)

\* C6 witness: a merge of two on-grid predictions in different buckets, an
\* off-grid observation inside the first one's bucket and an observation in
\* a bucket without prediction returned two rows that carry no observation.
C6_Witness ==
    /\ result.op = "mergeTideData"
    /\ Len(predictions) = 2
    /\ Len(result.value) = 2
    /\ result.value[1].time < result.value[2].time
    /\ Len(observations) = 2
    /\ \E j \in 1 .. 2 : /\ ~MinuteOnGrid(observations[j])
                          /\ BucketStart(observations[j].eventDate) =
                                 BucketStart(result.value[1].time)
    /\ \E j \in 1 .. 2 : observations[j].eventDate = SlotTime(3)
    /\ \A i \in 1 .. 2 : result.value[i].observation = Null

\* C7: a row's observation is present exactly when some on-grid observation
\* falls in the 15-minute bucket of the row's prediction, and then it is
\* that observation's value (the last one in input order), whatever the
\* value; otherwise it is absent.
C7_ObservationAttached ==
    result.op = "mergeTideData" =>
        \A i \in 1 .. Len(result.value) :
            LET in == ObservationsInBucket(result.value[i].time)
            IN  IF in = {}
                THEN result.value[i].observation = Null
                ELSE LET last == CHOOSE j \in in : \A k \in in : k <= j
                     IN  result.value[i].observation = Some(observations[last].value)

-----------------------------------------------------------------------------
(* Properties of the controller and the API client *)

\* Load id goes on after its await in this step and assigns the buffers.
LoadApplied(id) ==
    /\ id \in DOMAIN loads
    /\ ~loads[id].settled
    /\ id \notin DOMAIN loads'
    /\ failed' = failed

\* A fetch of load id fails in this step.
FetchFailed(id) ==
    /\ id \in DOMAIN loads
    /\ failed' = failed + 1
    /\ id \in DOMAIN loads' => loads'[id] # loads[id]

\* C8: only the most recent load request's result updates the visible
\* state: the result of a load that a later request has superseded, for a
\* date that is no longer the selected one, is not applied.
C8_StaleLoadNotApplied ==
    [][\A id \in DOMAIN loads :
          LoadApplied(id) =>
              ~(id < loadCount /\ loads[id].selDay # LocalDay(currentDate, tz))]_vars

\* C9: when a fetch of a load fails, the step leaves tideData and
\* todayTideData as they were, in the viewing-today and in the
\* viewing-another-date branch alike; nothing else the page shows changes
\* either, except that a load that was still awaiting shows the error
\* indicator and hides the loading indicator.
C9_FailureLeavesBuffers ==
    [][\A id \in DOMAIN loads :
          FetchFailed(id) =>
              /\ tideData' = tideData
              /\ todayTideData' = todayTideData
              /\ UNCHANGED <<currentDate, currentUnit, countdownInterval, timers, header>>
              /\ IF loads[id].settled
                 THEN UNCHANGED <<errorShown, loading>>
                 ELSE errorShown' /\ ~loading']_vars

\* C9 witness: while another date than today is viewed, with both buffers
\* loaded earlier, a fetch has failed: the error is shown, the loading
\* indicator hidden, and both buffers still hold the earlier series.
C9_Witness ==
    /\ failed = 1
    /\ errorShown
    /\ ~loading
    /\ LocalDay(currentDate, tz) # LocalDay(clock, tz)
    /\ tideData # <<>>
    /\ todayTideData # <<>>
    /\ tideData = todayTideData

\* C10: a series a fetch returns from the cache is the series of the local
\* calendar day of the date it was called with, and two requests for the
\* same local calendar day use the same cache key: the cache never holds a
\* day's series under another key than the one a fetch for that day uses.
C10_CachePerLocalDay ==
    \A e \in fetched :
        e.source # "none" =>
            /\ e.source = "cache" => e.data = RemoteSeries(e.kind, e.from, e.to)
            /\ \A k \in DOMAIN cache[e.kind] :
                   cache[e.kind][k].data = RemoteSeries(e.kind, e.from, e.to) => k = e.key

\* A call of the API client is made in this step
FetchesMade == loadCount' = loadCount + 1

\* The cache lives of the README: predictions 24 hours, observations 15
\* minutes
CacheLife(kind) == IF kind = "predictions" THEN 24 * HourMs ELSE 15 * MinuteMs

\* The request of slot i of load or call id is answered with a success
\* status in this step
Answered(id, i) ==
    /\ id \in DOMAIN loads
    /\ i \in Pending(loads[id])
    /\ failed' = failed
    /\ loadCount' = loadCount
    /\ \/ id \notin DOMAIN loads'
       \/ loads'[id].slots[i].status = "fulfilled"

\* C11: a fetch that looks its key up finds an entry stored less than 24
\* hours ago (predictions) or less than 15 minutes ago (observations)
\* exactly when it is served that entry's data from the cache with no
\* request; otherwise (no entry, or the age has been reached) it sends a
\* request, and the answer to a request replaces the entry of its key with
\* the answer, stamped with the time it arrived.
C11_CacheLife ==
    [][/\ FetchesMade =>
            \A e \in fetched' :
                e.source # "none" =>
                    LET entry == MapGet(cache'[e.kind], e.key)
                        fresh == /\ entry # Null
                                 /\ clock - entry[1].timestamp < CacheLife(e.kind)
                    IN  IF fresh
                        THEN /\ e.source = "cache"
                             /\ e.status = "fulfilled"
                             /\ e.data = entry[1].data
                        ELSE /\ e.source = "remote"
                             /\ e.status = "pending"
       /\ \A id \in DOMAIN loads : \A i \in 1 .. Len(loads[id].slots) :
            Answered(id, i) =>
                LET slot == loads[id].slots[i]
                IN  MapGet(cache'[slot.kind], slot.key)
                        = Some([timestamp |-> clock,
                                data |-> RemoteSeries(slot.kind, slot.from, slot.to)])
      ]_vars

\* C11 witness: an observation fetch has just found the entry of its key
\* aged exactly a quarter of an hour and has sent a request.
C11_Witness ==
    \E e \in fetched :
        /\ e.kind = "observations"
        /\ e.at = clock
        /\ e.source = "remote"
        /\ e.status = "pending"
        /\ e.key \in DOMAIN cache.observations
        /\ clock - cache.observations[e.key].timestamp = 15 * MinuteMs

\* C12: a step of handleRefresh leaves the cache with no entry of either
\* kind, and every fetch of the load it starts sends a request, except an
\* observation fetch for a day after today, which is short-circuited.
C12_RefreshBypassesCache ==
    [][HandleRefresh =>
          /\ cache' = [predictions |-> <<>>, observations |-> <<>>]
          /\ fetched' # {}
          /\ \A e \in fetched' :
                IF e.kind = "observations" /\ e.day > LocalDay(clock, tz)
                THEN e.source = "none"
                ELSE e.source = "remote" /\ e.status = "pending"]_vars

\* C12 witness: a load had completed, so both kinds were cached and still
\* fresh; a refresh has then emptied the cache and every fetch of its load
\* of today is a request in flight.
C12_Witness ==
    /\ tideData # <<>>
    /\ cache = [predictions |-> <<>>, observations |-> <<>>]
    /\ loading
    /\ Cardinality(fetched) = 2
    /\ \A e \in fetched : e.source = "remote"
    /\ \E id \in DOMAIN loads : \A e \in fetched : \E i \in Pending(loads[id]) : loads[id].slots[i] = e

\* C13: an observation fetch for a date whose local calendar day is after
\* today's returns the empty sequence at once, with no request and with the
\* observation cache neither consulted nor changed; an observation fetch for
\* today or an earlier day is served from the cache or sends a request.
C13_FutureObservations ==
    [][FetchesMade =>
          \A e \in fetched' :
              e.kind = "observations" =>
                  IF e.day > LocalDay(clock, tz)
                  THEN /\ e.source = "none"
                       /\ e.status = "fulfilled"
                       /\ e.data = <<>>
                       /\ cache'.observations = cache.observations
                       /\ \A id \in DOMAIN loads' \ DOMAIN loads :
                              \A i \in Pending(loads'[id]) : loads'[id].slots[i] # e
                  ELSE e.source \in {"cache", "remote"}]_vars

\* C13 witness: west of Greenwich in the evening, with today's observations
\* cached under tomorrow's UTC date and still fresh, an observation fetch for
\* tomorrow has returned empty without looking at that entry.
C13_Witness ==
    /\ tz < 0
    /\ (BaseDay + 1) \in DOMAIN cache.observations
    /\ clock - cache.observations[BaseDay + 1].timestamp < 15 * MinuteMs
    /\ \E e \in fetched :
          /\ e.kind = "observations"
          /\ e.at = clock
          /\ e.day = BaseDay + 1
          /\ e.day > LocalDay(clock, tz)
          /\ e.source = "none"
          /\ e.data = <<>>

\* C14: the first fetch of a load that fails rejects the load as a whole;
\* an answer that arrives afterwards for another fetch of that load renders
\* nothing (buffers, header and timer stay as they are); a fetch that has
\* been answered never sends another request, and requests are only sent
\* by a call of loadTideData, never again on their own.
C14_FailureIsTerminal ==
    [][/\ \A id \in DOMAIN loads :
            /\ FetchFailed(id) => (id \in DOMAIN loads' => loads'[id].settled)
            /\ (loads[id].settled /\ (id \in DOMAIN loads' => loads'[id] # loads[id])
                    /\ loadCount' = loadCount) =>
                  UNCHANGED <<tideData, todayTideData, header, countdownInterval, timers>>
            /\ id \in DOMAIN loads' =>
                  /\ loads[id].settled => loads'[id].settled
                  /\ \A i \in 1 .. Len(loads[id].slots) :
                        loads[id].slots[i].status # "pending" =>
                            loads'[id].slots[i] = loads[id].slots[i]
       /\ \A id \in DOMAIN loads' \ DOMAIN loads : id = loadCount' /\ loadCount' = loadCount + 1
      ]_vars

\* C14 witness: the observation fetch of the first load failed, its
\* prediction fetch succeeded (the series is in the cache), every request
\* has been answered, and nothing of the predictions is rendered.
C14_Witness ==
    /\ loadCount = 1
    /\ failed = 1
    /\ loads = <<>>
    /\ cache.predictions # <<>>
    /\ cache.observations = <<>>
    /\ tideData = <<>>
    /\ todayTideData = <<>>
    /\ countdownInterval = Null
    /\ errorShown
    /\ ~loading

\* The merged series of a local calendar day, as the remote source has it
DaySeries(day, off) ==
    LET from == day * DayMs - off
        to   == from + DayMs - 1
    IN  mergeTideData(RemoteSeries("predictions", from, to),
                      RemoteSeries("observations", from, to), off)

\* The instants at which the load calls that can assign in this step read
\* "today": now, and the start of every load in flight
TodayReadAt == {clock} \cup {loads[id].slots[1].at : id \in DOMAIN loads}

\* C15: whenever a step sets todayTideData, it sets it to the merged series
\* of today's date (today as the load read it when it started), never to
\* another day's; and whenever the header changes it is computed from
\* todayTideData alone.
C15_HeaderReflectsToday ==
    [][/\ todayTideData' # todayTideData =>
            \E t \in TodayReadAt : todayTideData' = DaySeries(LocalDay(t, tz), tz)
       /\ header' # header =>
            \/ header' = HeaderOf(todayTideData', clock')
            \/ header' = [header EXCEPT !.countdown = getCountdown(todayTideData', clock')]
      ]_vars

\* C16: at most one countdown interval timer is active, and it is the one
\* countdownInterval names; when a render starts a timer, the timer that ran
\* before is no longer active.
C16_SingleTimer ==
    /\ Cardinality(timers) <= 1
    /\ timers # {} => countdownInterval # Null /\ timers = {countdownInterval[1]}

\* C16 witness: after a load for today, a load for the next day and a unit
\* toggle have each rendered, one timer is active.
C16_Witness ==
    /\ loadCount = 2
    /\ loads = <<>>
    /\ failed = 0
    /\ LocalDay(currentDate, tz) = BaseDay + 1
    /\ tideData # <<>>
    /\ todayTideData = DaySeries(BaseDay, tz)
    /\ tideData # todayTideData
    /\ currentUnit = "feet"
    /\ Cardinality(timers) = 1

\* The consecutive pairs of s that bracket now
Brackets(s, now) ==
    {i \in 1 .. Len(s) - 1 : s[i].time <= now /\ now < s[i + 1].time}

\* The smallest member of a non-empty set of indices
Least(S) == CHOOSE i \in S : \A j \in S : i <= j

\* C17: getTideTrend returns 'unknown' exactly when no consecutive pair
\* brackets now, which on a series ordered by time (of any length, also
\* none or one sample) is when now is before the first sample's time or at
\* or after the last one's; otherwise it compares the first bracketing pair:
\* 'rising' when the later prediction is strictly greater, else 'falling',
\* so equal predictions give 'falling'.
C17_TideTrend ==
    result.op = "getTideTrend" =>
        LET s == series
            now == currentTime
            outside == Len(s) = 0 \/ now < s[1].time \/ now >= s[Len(s)].time
        IN  /\ NonDecreasing(s) => (outside <=> result.value = "unknown")
            /\ Brackets(s, now) = {} <=> result.value = "unknown"
            /\ Brackets(s, now) # {} =>
                  LET i == Least(Brackets(s, now))
                  IN  result.value = IF s[i + 1].prediction > s[i].prediction
                                     THEN "rising" ELSE "falling"

\* C17 witness: now lies between two samples of equal prediction and the
\* trend returned is 'falling'.
C17_Witness ==
    /\ result.op = "getTideTrend"
    /\ result.value = "falling"
    /\ Len(series) = 3
    /\ NonDecreasing(series)
    /\ Brackets(series, currentTime) # {}
    /\ LET i == Least(Brackets(series, currentTime))
       IN  series[i + 1].prediction = series[i].prediction

\* The first index of s whose prediction is p
FirstWith(s, p) == Least({i \in 1 .. Len(s) : s[i].prediction = p})

MaxPrediction(s) ==
    CHOOSE p \in {s[i].prediction : i \in 1 .. Len(s)} :
        \A i \in 1 .. Len(s) : s[i].prediction <= p

MinPrediction(s) ==
    CHOOSE p \in {s[i].prediction : i \in 1 .. Len(s)} :
        \A i \in 1 .. Len(s) : s[i].prediction >= p

\* C18: on a non-empty series findHighLowTides returns as high the first
\* sample, in series order, whose prediction is the maximum of the series,
\* and as low the first sample whose prediction is the minimum.
C18_HighLowFirstOccurrence ==
    (result.op = "findHighLowTides" /\ Len(series) > 0) =>
        /\ result.value.high = Some(series[FirstWith(series, MaxPrediction(series))])
        /\ result.value.low = Some(series[FirstWith(series, MinPrediction(series))])

\* C18 witness: the maximum occurs at the first and again at the last of
\* three samples with different times, the minimum at the second, and the
\* high returned is the first sample.
C18_Witness ==
    /\ result.op = "findHighLowTides"
    /\ Len(series) = 3
    /\ series[1].prediction = 120
    /\ series[2].prediction = 100
    /\ series[3].prediction = 120
    /\ series[1].time # series[3].time
    /\ result.value.high = Some(series[1])
    /\ result.value.low = Some(series[2])

\* C19: on an empty series every engine function returns its value for "no
\* data": findHighLowTides {high: null, low: null}, findAccessWindows an
\* empty sequence, getCountdown null, getTideTrend 'unknown' and
\* getCurrentAccessStatus {accessible: false, status: 'unknown', tide: null}
\* (with no entry).
C19_EmptySeries ==
    Len(series) = 0 =>
        /\ result.op = "findHighLowTides" => result.value = [high |-> Null, low |-> Null]
        /\ result.op = "findAccessWindows" => result.value = <<>>
        /\ result.op = "getCountdown" => result.value = Null
        /\ result.op = "getTideTrend" => result.value = "unknown"
        /\ result.op = "getCurrentAccessStatus" =>
              /\ result.value.accessible = FALSE
              /\ result.value.status = "unknown"
              /\ result.value.tide = Null
              /\ result.value.entry = Null

\* C19 witness: getCurrentAccessStatus has been applied to the empty series.
C19_Witness ==
    /\ Len(series) = 0
    /\ result.op = "getCurrentAccessStatus"
    /\ result.value.status = "unknown"
    /\ ~result.value.accessible

\* The label as text, 'hh:mm AM' or 'hh:mm PM', held as its code units
\* (hour: '2-digit', minute: '2-digit', hour12: true in en-US).
LabelText(label) ==
    <<48 + (label.hour \div 10), 48 + (label.hour % 10), 58,
      48 + (label.minute \div 10), 48 + (label.minute % 10), 32,
      IF label.pm THEN 80 ELSE 65, 77>>

\* a < b on strings: code unit by code unit, a proper prefix first
StringLess(a, b) ==
    \/ \E i \in 1 .. Len(a) :
          /\ i <= Len(b)
          /\ a[i] < b[i]
          /\ \A j \in 1 .. i - 1 : a[j] = b[j]
    \/ /\ Len(a) < Len(b)
       /\ \A j \in 1 .. Len(a) : a[j] = b[j]

\* The minute of the day a label names: 12:xx AM is 00:xx, 12:xx PM is 12:xx
LabelMinuteOfDay(label) ==
    ((label.hour % 12) + (IF label.pm THEN 12 ELSE 0)) * 60 + label.minute

\* The predictions handed to mergeTideData are in time order
PredictionsSorted ==
    \A i \in 1 .. Len(predictions) - 1 :
        predictions[i].eventDate <= predictions[i + 1].eventDate

\* The predictions handed to mergeTideData lie on one local calendar day
PredictionsOfOneDay ==
    \A i, j \in 1 .. Len(predictions) :
        LocalDay(predictions[i].eventDate, tz) = LocalDay(predictions[j].eventDate, tz)

\* C20: every merged series produced from time-sorted predictions of one
\* calendar day is non-decreasing by time, and the order of its rows by
\* their label, compared as the strings they are, is non-decreasing too and
\* agrees with the order by time.
C20_LabelOrderMatchesTime ==
    (result.op = "mergeTideData" /\ PredictionsSorted /\ PredictionsOfOneDay) =>
        /\ NonDecreasing(result.value)
        /\ \A i, j \in 1 .. Len(result.value) :
              i < j => ~StringLess(LabelText(result.value[j].timeString),
                                   LabelText(result.value[i].timeString))
        /\ \A i, j \in 1 .. Len(result.value) :
              result.value[i].time <= result.value[j].time =>
                  ~StringLess(LabelText(result.value[j].timeString),
                              LabelText(result.value[i].timeString))

\* C20 amended: every merged series produced from time-sorted predictions of
\* one local calendar day is non-decreasing by time, and its labels, read as
\* times of day (12:xx AM before 01:00 AM, every AM before every PM), are
\* non-decreasing and agree with the order by time.
C20_LabelClockOrderMatchesTime ==
    (result.op = "mergeTideData" /\ PredictionsSorted /\ PredictionsOfOneDay) =>
        /\ NonDecreasing(result.value)
        /\ \A i, j \in 1 .. Len(result.value) :
              i < j => LabelMinuteOfDay(result.value[i].timeString)
                           <= LabelMinuteOfDay(result.value[j].timeString)
        /\ \A i, j \in 1 .. Len(result.value) :
              result.value[i].time <= result.value[j].time =>
                  LabelMinuteOfDay(result.value[i].timeString)
                      <= LabelMinuteOfDay(result.value[j].timeString)

\* C20 witness: a merged series of one local day, in time order, goes from
\* 12:30 AM to 01:00 AM: later by the clock, earlier as a string.
C20_Witness ==
    /\ result.op = "mergeTideData"
    /\ PredictionsSorted
    /\ PredictionsOfOneDay
    /\ Len(result.value) = 2
    /\ result.value[1].time < result.value[2].time
    /\ result.value[1].timeString = [hour |-> 12, minute |-> 30, pm |-> FALSE]
    /\ result.value[2].timeString = [hour |-> 1, minute |-> 0, pm |-> FALSE]
    /\ StringLess(LabelText(result.value[2].timeString),
                  LabelText(result.value[1].timeString))

\* A load is served from the cache alone and assigns the buffers within the
\* step that calls it
LoadServedFromCache == loadCount' = loadCount + 1 /\ loads' = loads

\* C21: the two series buffers change only in a step in which a load
\* succeeds; a timer tick and a unit toggle leave tideData, todayTideData,
\* the cache and the selected date unchanged and issue no fetch; a tick
\* recomputes the countdown from todayTideData at the current instant and
\* nothing else; of the shared state (the two buffers and the unit) a toggle
\* changes only the unit. The engine functions are called by these steps and
\* by the successful load.
C21_OnlyLoadsChangeBuffers ==
    [][/\ (tideData' # tideData \/ todayTideData' # todayTideData) =>
             \/ \E id \in DOMAIN loads : LoadApplied(id)
             \/ LoadServedFromCache
       /\ TimerTick =>
             /\ UNCHANGED <<tideData, todayTideData, cache, currentDate, currentUnit,
                            loads, loadCount, fetched, failed>>
             /\ header' = [header EXCEPT !.countdown = getCountdown(todayTideData, clock)]
       /\ currentUnit' # currentUnit =>
             /\ ToggleUnit
             /\ UNCHANGED <<tideData, todayTideData, cache, currentDate,
                            loads, loadCount, fetched, failed>>
             /\ header' = HeaderOf(todayTideData, clock)
      ]_vars

\* C21 witness: the unit has been toggled to feet, another day is viewed, and
\* after the clock moved past the access window a tick has replaced the
\* countdown (computed from today's series) while the status shown is still
\* the one of the last rendering.
C21_Witness ==
    /\ currentUnit = "feet"
    /\ todayTideData # <<>>
    /\ tideData # <<>>
    /\ tideData # todayTideData
    /\ clock = BaseDay * DayMs + 9 * HourMs + 10 * MinuteMs
    /\ header.countdown = getCountdown(todayTideData, clock)
    /\ header.countdown # getCountdown(tideData, clock)
    /\ header.countdown # getCountdown(todayTideData, BaseDay * DayMs + 8 * HourMs + 30 * MinuteMs)
    /\ header.status # getCurrentAccessStatus(todayTideData, clock).status

\* The whole seconds of a countdown of ms milliseconds
WholeSeconds(ms) == ms \div 1000

\* The seconds the shown components stand for
RECURSIVE ShownSeconds(_)
ShownSeconds(parts) ==
    IF parts = <<>> THEN 0
    ELSE LET p == Head(parts)
         IN  p.n * (CASE p.unit = "h" -> 3600 [] p.unit = "m" -> 60 [] OTHER -> 1)
                 + ShownSeconds(Tail(parts))

\* C22: with T the whole seconds of ms, formatCountdown shows floor(T/3600)
\* hours and floor((T mod 3600)/60) minutes and no seconds when T >= 3600,
\* otherwise floor(T/60) minutes and T mod 60 seconds when T >= 60,
\* otherwise T seconds only; the components never add up to more than T.
C22_CountdownText ==
    result.op = "formatCountdown" =>
        LET T == WholeSeconds(input)
        IN  /\ T >= 3600 =>
                  result.value = <<[n |-> T \div 3600, unit |-> "h"],
                                   [n |-> (T % 3600) \div 60, unit |-> "m"]>>
            /\ (T < 3600 /\ T >= 60) =>
                  result.value = <<[n |-> T \div 60, unit |-> "m"],
                                   [n |-> T % 60, unit |-> "s"]>>
            /\ T < 60 => result.value = <<[n |-> T, unit |-> "s"]>>
            /\ ShownSeconds(result.value) <= T

\* C22 witness: 3,661,999 ms (1 h 1 min 1.999 s) is shown as '1h 1m', which
\* stands for 3660 of its 3661 whole seconds.
C22_Witness ==
    /\ input = 3661999
    /\ result.op = "formatCountdown"
    /\ result.value = <<[n |-> 1, unit |-> "h"], [n |-> 1, unit |-> "m"]>>
    /\ ShownSeconds(result.value) = 3660

\* C23: for every height x of whole centimetres,
\* parseHeight(formatHeight(x, 'meters'), 'meters') is within 0.01 m of x.
C23_MetersRoundTrip ==
    (result.op = "parseHeight" /\ result.unit = "meters") =>
        /\ result.value # NaN
        /\ Abs(100 * result.value.num - input * result.value.den) <= result.value.den

\* The countdown is of type 'window-closing'
IsClosing(countdown) == countdown # Null /\ countdown[1].type = "window-closing"

NoObservations(rows) == \A i \in 1 .. Len(rows) : rows[i].observation = Null

\* C24: for a time-sorted series without observations, whenever
\* getCountdown reports 'window-closing' at an instant,
\* getCurrentAccessStatus reports accessible at that instant, and the
\* header never shows a closing window together with 'Not Accessible'.
C24_ClosingImpliesAccessible ==
    (NonDecreasing(todayTideData) /\ NoObservations(todayTideData)) =>
        /\ IsClosing(getCountdown(todayTideData, clock)) =>
               getCurrentAccessStatus(todayTideData, clock).accessible
        /\ IsClosing(header.countdown) => header.status = "accessible"

\* The countdown is of type 'window-opening'
IsOpening(countdown) == countdown # Null /\ countdown[1].type = "window-opening"

\* The instants of NowTimes after now: where later ticks find the clock
LaterTicks(now) == {t \in NowTimes : t > now}

\* C25: a countdown that getCountdown returns has ms >= 0 when it is
\* 'window-closing' and ms > 0 when it is 'window-opening', for every series
\* and instant; and when it is recomputed at a later instant on the same
\* series (a later tick), then inside the same window ms has gone down by
\* the time that passed, and past the window's end the result is no longer
\* a countdown to the end of that window (ms never goes below 0).
C25_CountdownNeverNegative ==
    LET c == getCountdown(series, currentTime)
    IN  /\ result.op = "getCountdown" =>
              /\ result.value = c
              /\ IsClosing(c) => c[1].ms >= 0
              /\ IsOpening(c) => c[1].ms > 0
        /\ \A later \in LaterTicks(currentTime) :
              LET d == getCountdown(series, later)
              IN  /\ IsClosing(d) => d[1].ms >= 0
                  /\ IsOpening(d) => d[1].ms > 0
                  /\ (IsClosing(c) /\ IsClosing(d) /\ d[1].window = c[1].window) =>
                         /\ d[1].ms = c[1].ms - (later - currentTime)
                         /\ d[1].ms < c[1].ms
                  /\ (IsClosing(c) /\ later > c[1].window.end) =>
                         ~(IsClosing(d) /\ d[1].window = c[1].window)

\* C25 witness: getCountdown has returned 'window-closing' with ms = 0 (now
\* is the end of a window that started earlier), and at the next instant the
\* result is no longer 'window-closing'.
C25_Witness ==
    /\ result.op = "getCountdown"
    /\ IsClosing(result.value)
    /\ result.value[1].ms = 0
    /\ result.value[1].window.start < currentTime
    /\ \E later \in LaterTicks(currentTime) :
          /\ \A t \in LaterTicks(currentTime) : later <= t
          /\ ~IsClosing(getCountdown(series, later))

\* C26: a step in which a fetch fails leaves the cache as it was; the cache
\* changes only when a request is answered with a success status, which
\* stores that response under the request's key (also when its load has
\* already failed), or when a refresh clears it; and a step of
\* retryAfterError leaves the cache as it is and sends a request exactly
\* for the fetches that find no valid entry, serving the others the cached
\* response.
C26_FailuresNotCached ==
    [][/\ \A id \in DOMAIN loads : FetchFailed(id) => cache' = cache
       /\ cache' # cache =>
             \/ \E id \in DOMAIN loads : \E i \in 1 .. Len(loads[id].slots) :
                   /\ Answered(id, i)
                   /\ cache' = CacheStore(cache, loads[id].slots[i].kind,
                                          loads[id].slots[i].key, clock,
                                          RemoteSeries(loads[id].slots[i].kind,
                                                       loads[id].slots[i].from,
                                                       loads[id].slots[i].to))
             \/ HandleRefresh
       /\ RetryAfterError =>
             /\ cache' = cache
             /\ fetched' # {}
             /\ \A e \in fetched' :
                   LET entry == MapGet(cache[e.kind], e.key)
                       valid == /\ entry # Null
                                /\ clock - entry[1].timestamp < CacheLife(e.kind)
                   IN  IF e.kind = "observations" /\ e.day > LocalDay(clock, tz)
                       THEN e.source = "none"
                       ELSE IF valid
                       THEN e.source = "cache" /\ e.data = entry[1].data
                       ELSE e.source = "remote" /\ e.status = "pending"
      ]_vars

\* C26 witness: the observation request of a load failed while its
\* prediction request was answered; the retry has taken the predictions
\* from the cache and has sent a request for the observations only, and the
\* cache holds no observation entry.
C26_Witness ==
    /\ failed = 1
    /\ loadCount = 2
    /\ ~errorShown
    /\ cache.observations = <<>>
    /\ \E e \in fetched : e.kind = "predictions" /\ e.source = "cache"
                             /\ e.data = RemoteSeries("predictions", e.from, e.to)
    /\ \E e \in fetched : e.kind = "observations" /\ e.source = "remote"
                             /\ e.status = "pending"
    /\ \A e \in fetched : e.kind = "predictions" => e.source = "cache"

=============================================================================
